---- MODULE Spec2Model ----
(***************************************************************************)
(* A model of uuid-rs: the Layout bit packing (src/src/lib.rs), the        *)
(* time-based generators with their process-wide LAST_TIMESTAMP guard      *)
(* (src/src/time.rs) and the name-based generators (src/src/name.rs).      *)
(*                                                                         *)
(* Integers keep their Rust widths.  A u64 is a tuple of four 16-bit limbs *)
(* <<w3, w2, w1, w0>>, most significant first; a u32 is a pair <<hi, lo>>  *)
(* of such limbs; u16 and u8 are plain naturals below 2^16 and 2^8.        *)
(***************************************************************************)
EXTENDS Integers, Sequences, FiniteSets, TLC

(***************************************************************************)
(* Fixed-width arithmetic                                                  *)
(***************************************************************************)
Limb == 2^16

Byte == 2^8

\* a & b on n-bit operands, bit by bit
RECURSIVE AndBits(_, _, _)
AndBits(a, b, n) ==
    IF n = 0 THEN 0
    ELSE (a % 2) * (b % 2) + 2 * AndBits(a \div 2, b \div 2, n - 1)

\* a | b on n-bit operands, bit by bit
RECURSIVE OrBits(_, _, _)
OrBits(a, b, n) ==
    IF n = 0 THEN 0
    ELSE (IF a % 2 = 1 \/ b % 2 = 1 THEN 1 ELSE 0)
         + 2 * OrBits(a \div 2, b \div 2, n - 1)

\* The two operations on bytes, tabulated once
AndTable == [a \in 0..255 |-> [b \in 0..255 |-> AndBits(a, b, 8)]]

OrTable == [a \in 0..255 |-> [b \in 0..255 |-> OrBits(a, b, 8)]]

\* a & b and a | b on u8
And8(a, b) == AndTable[a][b]

Or8(a, b) == OrTable[a][b]

\* a & b and a | b on u16, byte by byte
And16(a, b) == And8(a \div 256, b \div 256) * 256 + And8(a % 256, b % 256)

Or16(a, b) == Or8(a \div 256, b \div 256) * 256 + Or8(a % 256, b % 256)

\* x << n on a u16 (bits shifted out are lost)
Shl16(x, n) == (x * 2^n) % Limb

\* x << n on a u8
Shl8(x, n) == (x * 2^n) % Byte

\* x >> n on a u16
Shr16(x, n) == x \div 2^n

\* x >> n on a u8
Shr8(x, n) == x \div 2^n

\* x as u8 (truncation)
AsU8(x) == x % Byte

Zero64 == <<0, 0, 0, 0>>

One64 == <<0, 0, 0, 1>>

\* a + b on u64, wrapping at 2^64
Add64(a, b) ==
    LET s0 == a[4] + b[4]
        s1 == a[3] + b[3] + s0 \div Limb
        s2 == a[2] + b[2] + s1 \div Limb
        s3 == a[1] + b[1] + s2 \div Limb
    IN  <<s3 % Limb, s2 % Limb, s1 % Limb, s0 % Limb>>

\* a < b on u64
Lt64(a, b) ==
    \E i \in 1..4 : a[i] < b[i] /\ \A j \in 1..(i - 1) : a[j] = b[j]

\* a <= b on u64
Le64(a, b) == a = b \/ Lt64(a, b)

\* a - b on u64, for a >= b
Sub64(a, b) ==
    LET d0 == a[4] - b[4]
        b0 == IF d0 < 0 THEN 1 ELSE 0
        d1 == a[3] - b[3] - b0
        b1 == IF d1 < 0 THEN 1 ELSE 0
        d2 == a[2] - b[2] - b1
        b2 == IF d2 < 0 THEN 1 ELSE 0
        d3 == a[1] - b[1] - b2
    IN  <<d3 % Limb, d2 % Limb, d1 % Limb, d0 % Limb>>

None == "None"

\* u64::checked_sub
checked_sub(a, b) == IF Lt64(a, b) THEN None ELSE Sub64(a, b)

\* a & m on u64
BitAnd64(a, m) == <<And16(a[1], m[1]), And16(a[2], m[2]),
                    And16(a[3], m[3]), And16(a[4], m[4])>>

\* a | b on u64
BitOr64(a, b) == <<Or16(a[1], b[1]), Or16(a[2], b[2]),
                   Or16(a[3], b[3]), Or16(a[4], b[4])>>

\* a >> n on u64, for the shifts the code uses (n a multiple of 16)
Shr64(a, n) ==
    LET k == n \div 16
        w(i) == IF i - k >= 1 THEN a[i - k] ELSE 0
    IN  <<w(1), w(2), w(3), w(4)>>

\* a << n on u64, for the shifts the code uses (n a multiple of 16)
Shl64(a, n) ==
    LET k == n \div 16
        w(i) == IF i + k <= 4 THEN a[i + k] ELSE 0
    IN  <<w(1), w(2), w(3), w(4)>>

\* x as u64, from u16 and from u32
U64FromU16(x) == <<0, 0, 0, x>>

U64FromU32(x) == <<0, 0, x[1], x[2]>>

\* x as u32 and x as u16, from u64 (truncation)
AsU32(a) == <<a[3], a[4]>>

AsU16(a) == a[4]

(***************************************************************************)
(* lib.rs: constants, enumerations, Layout and its accessors               *)
(***************************************************************************)
\* 0x01B2_1DD2_1381_4000
UTC_EPOCH == <<434, 7634, 4993, 16384>>

\* enum Version { TIME = 1, DCE, MD5, RAND, SHA1 }
TIME == 1

DCE == 2

MD5 == 3

RAND == 4

SHA1 == 5

Version == {TIME, DCE, MD5, RAND, SHA1}

\* enum Variant { NCS = 0, RFC, MS, FUT }
NCS == 0

RFC == 1

MS == 2

FUT == 3

\* enum Domain { PERSON = 0, GROUP, ORG }
PERSON == 0

GROUP == 1

ORG == 2

Domain == {PERSON, GROUP, ORG}

\* struct Layout
Layout(fl, fm, fhv, csh, csl, n) ==
    [field_low |-> fl, field_mid |-> fm, field_high_and_version |-> fhv,
     clock_seq_high_and_reserved |-> csh, clock_seq_low |-> csl, node |-> n]

\* u16::to_le_bytes in place of to_be_bytes
to_le_bytes16(x) == <<x % Byte, x \div Byte>>

\* u16::to_be_bytes and u32::to_be_bytes
to_be_bytes16(x) == <<x \div Byte, x % Byte>>

to_be_bytes32(x) == to_be_bytes16(x[1]) \o to_be_bytes16(x[2])

\* Layout::as_fields
as_fields(l) ==
    <<l.field_low,
      l.field_mid,
      l.field_high_and_version,
      Or16(Shl16(l.clock_seq_high_and_reserved, 8), l.clock_seq_low),
      <<0,
        Or16(Shl16(l.node[1], 8), l.node[2]),
        Or16(Shl16(l.node[3], 8), l.node[4]),
        Or16(Shl16(l.node[5], 8), l.node[6])>> >>

\* Layout::as_bytes
as_bytes(l) ==
    <<to_be_bytes32(l.field_low)[1],
      to_be_bytes32(l.field_low)[2],
      to_be_bytes32(l.field_low)[3],
      to_be_bytes32(l.field_low)[4],
      to_be_bytes16(l.field_mid)[1],
      to_be_bytes16(l.field_mid)[2],
      to_be_bytes16(l.field_high_and_version)[1],
      to_be_bytes16(l.field_high_and_version)[2],
      l.clock_seq_high_and_reserved,
      l.clock_seq_low,
      l.node[1], l.node[2], l.node[3], l.node[4], l.node[5], l.node[6]>>

\* Layout::get_version
get_version(l) ==
    LET v == And16(Shr16(l.field_high_and_version, 12), 15)
    IN  IF v \in {1, 2, 3, 4, 5} THEN v ELSE None

\* Layout::get_variant
get_variant(l) ==
    LET v == And8(Shr8(l.clock_seq_high_and_reserved, 4), 15)
    IN  IF v \in {0, 1, 2, 3} THEN v ELSE None

\* Layout::get_time: None stands for the panic of unwrap() on underflow
get_time(l) ==
    LET t == BitOr64(BitOr64(Shl64(U64FromU16(l.field_high_and_version), 48),
                             Shl64(U64FromU16(l.field_mid), 32)),
                     U64FromU32(l.field_low))
    IN  checked_sub(t, UTC_EPOCH)

\* Layout::get_mac
get_mac(l) == l.node

\* Timestamp::new, for a clock that reads `intervals` 100-ns ticks since the
\* Unix epoch (since_unix.as_nanos() / 100); the sum is masked to 60 bits.
\* The code adds in u128; the bits above 2^64 that Add64 drops are cleared by
\* the mask in any case.  A clock before the Unix epoch makes unwrap() panic
\* before anything is read or written: such a call is no step of the model.
Timestamp_new(intervals) ==
    BitAnd64(Add64(intervals, UTC_EPOCH), <<4095, 65535, 65535, 65535>>)

\* An add that returns the value after the addition, not the one before
add_fetch(cell, n) == [ret |-> (cell + n) % Limb, cell |-> (cell + n) % Limb]

\* AtomicU16::fetch_add on a cell holding `cell`: the value returned and the
\* value left in the cell
fetch_add(cell, n) == [ret |-> cell, cell |-> (cell + n) % Limb]

\* ClockSeq::new
ClockSeq_new(random_bits) ==
    LET initial == And16(random_bits, 16383)
    IN  fetch_add(initial, 1).ret

\* impl Display for UUID: lowercase hex, hyphens after bytes 4, 6, 8 and 10,
\* as a sequence of characters
HexDigits == <<"0", "1", "2", "3", "4", "5", "6", "7",
               "8", "9", "a", "b", "c", "d", "e", "f">>

Hex2(b) == <<HexDigits[(b \div 16) + 1], HexDigits[(b % 16) + 1]>>

RECURSIVE HexRun(_, _, _)
HexRun(bytes, from, to) ==
    IF from > to THEN <<>>
    ELSE Hex2(bytes[from]) \o HexRun(bytes, from + 1, to)

UUID_fmt(u) ==
    HexRun(u, 1, 4) \o <<"-">> \o HexRun(u, 5, 6) \o <<"-">>
    \o HexRun(u, 7, 8) \o <<"-">> \o HexRun(u, 9, 10) \o <<"-">>
    \o HexRun(u, 11, 16)

\* UUID::NAMESPACE_DNS and UUID::NAMESPACE_URL
NAMESPACE_DNS == <<107, 167, 184, 16, 157, 173, 17, 209,
                   128, 180, 0, 192, 79, 212, 48, 200>>

NAMESPACE_URL == <<107, 167, 184, 17, 157, 173, 17, 209,
                   128, 180, 0, 192, 79, 212, 48, 200>>

(***************************************************************************)
(* time.rs: the time-based generators                                      *)
(***************************************************************************)
\* clock_seq_high_and_reserved keeping six bits of the high byte (mask 0x3f)
clock_seq_high_6bit(s, random_bits) ==
    LET clock_seq == ClockSeq_new(random_bits)
    IN  <<Or8(AsU8(And16(Shr16(clock_seq, 8), 63)), Shl8(s, 4)),
          AsU8(And16(clock_seq, 255))>>

\* UUID::clock_seq_high_and_reserved(s), for the value rand::random::<u16>()
\* returned
clock_seq_high_and_reserved(s, random_bits) ==
    LET clock_seq == ClockSeq_new(random_bits)
    IN  <<Or8(AsU8(And16(Shr16(clock_seq, 8), 15)), Shl8(s, 4)),
          AsU8(And16(clock_seq, 255))>>

\* The three time fields v1, v2 and from_mac pack from a timestamp and a
\* version: field_low, field_mid, field_high_and_version
time_fields(timestamp, v) ==
    <<AsU32(BitAnd64(timestamp, <<0, 0, 65535, 65535>>)),
      AsU16(BitAnd64(Shr64(timestamp, 32), <<0, 0, 0, 65535>>)),
      Or16(AsU16(BitAnd64(Shr64(timestamp, 48), <<0, 0, 0, 4095>>)),
           Shl16(v, 12))>>

\* The Layout v1 returns
v1_layout(timestamp, random_bits, mac) ==
    LET clock_seq == clock_seq_high_and_reserved(RFC, random_bits)
        f == time_fields(timestamp, TIME)
    IN  Layout(f[1], f[2], f[3], clock_seq[1], clock_seq[2], mac)

\* The Layout v2 returns
v2_layout(timestamp, d, random_bits, mac) ==
    LET f == time_fields(timestamp, DCE)
    IN  Layout(f[1], f[2], f[3],
               clock_seq_high_and_reserved(RFC, random_bits)[1],
               AsU8(d), mac)

\* The Layout from_mac returns
from_mac_layout(timestamp, v, random_bits, mac) ==
    LET clock_seq == clock_seq_high_and_reserved(RFC, random_bits)
        f == time_fields(timestamp, v)
    IN  Layout(f[1], f[2], f[3], clock_seq[1], clock_seq[2], mac)

\* The comparison written with < in place of <=
adjust_lt(timestamp, last) ==
    IF Lt64(timestamp, last) THEN Add64(last, One64) ELSE timestamp

\* v1 and v2, lines 22-24 and 50-52: the timestamp after the comparison with
\* the value loaded from LAST_TIMESTAMP.  last + 1 would overflow only from
\* last = 2^64 - 1, which takes more than 2^63 calls to reach.
adjust(timestamp, last) ==
    IF Le64(timestamp, last) THEN Add64(last, One64) ELSE timestamp

(***************************************************************************)
(* name.rs: the name-based generators                                      *)
(***************************************************************************)
\* UUID::data
data(any, namespace) == UUID_fmt(namespace) \o any

\* name_layout without the & 0xfff on the third field
name_layout_unmasked(hash, v) ==
    Layout(<<Or16(Shl16(hash[1], 8), hash[2]), Or16(Shl16(hash[3], 8), hash[4])>>,
           Or16(Shl16(hash[5], 8), hash[6]),
           Or16(Or16(Shl16(hash[7], 8), hash[8]), Shl16(v, 12)),
           Or8(And8(hash[9], 15), Shl8(RFC, 4)),
           hash[10],
           <<hash[11], hash[12], hash[13], hash[14], hash[15], hash[16]>>)

\* The Layout v3 and v5 build from the digest `hash` and their version
name_layout(hash, v) ==
    Layout(<<Or16(Shl16(hash[1], 8), hash[2]), Or16(Shl16(hash[3], 8), hash[4])>>,
           Or16(Shl16(hash[5], 8), hash[6]),
           Or16(And16(Or16(Shl16(hash[7], 8), hash[8]), 4095), Shl16(v, 12)),
           Or8(And8(hash[9], 15), Shl8(RFC, 4)),
           hash[10],
           <<hash[11], hash[12], hash[13], hash[14], hash[15], hash[16]>>)

(***************************************************************************)
(* Bounds and the inputs the environment supplies                          *)
(***************************************************************************)
\* threads that may call v1 and v2
NThreads == 2

\* calls made in one behaviour
MaxCalls == 3

Threads == 1..NThreads

\* Clock readings, as 100-ns ticks since the Unix epoch.  They give the
\* timestamps UTC_EPOCH, 0x01B2_1DD2_1381_FFFF (a bump carries into the next
\* limb) and 2^60 - 1 (the largest 60-bit value).  Any reading may follow
\* any other: the clock may stand still or go backward.
Intervals == {<<0, 0, 0, 0>>,
              <<0, 0, 0, 49151>>,
              <<3661, 57901, 60542, 49151>>}

\* Values of rand::random::<u16>(): 0x0000, 0x1000, 0xffff
Seeds == {0, 4096, 65535}

\* The node-id provider's address (UUID::mac) and a caller-supplied address.
\* The host is taken to have an address: without one mac() panics in unwrap().
SystemMac == <<0, 42, 53, 13, 19, 128>>

Macs == {<<3, 42, 53, 13, 19, 128>>}

\* Names and namespaces passed to v3 and v5
Names == {<<"a", "n", "y">>}

Namespaces == {NAMESPACE_DNS, NAMESPACE_URL}

\* Digests the hash provider may return: 16 bytes (MD5), 20 bytes (SHA-1)
MD5Digests == {<<1, 35, 69, 103, 137, 171, 205, 239,
                 254, 220, 186, 152, 118, 84, 50, 16>>,
               <<255, 255, 255, 255, 255, 255, 255, 255,
                 255, 255, 255, 255, 255, 255, 255, 255>>}

SHA1Digests == {<<16, 50, 84, 118, 152, 186, 220, 254,
                  239, 205, 171, 137, 103, 69, 35, 1, 170, 187, 204, 221>>,
                <<0, 0, 0, 0, 0, 0, 0, 0, 0, 0,
                  0, 0, 0, 0, 0, 0, 0, 0, 0, 0>>}

\* Layouts written as struct literals (every field of Layout is pub)
Layouts ==
    {Layout(fl, fm, fhv, csh, csl, n) :
        fl \in {<<0, 0>>, <<4660, 22136>>, <<65535, 65535>>},
        fm \in {0, 39612, 65535},
        fhv \in {0, 7663, 65535},
        csh \in {154, 255},
        csl \in {0, 91},
        n \in {SystemMac, <<255, 254, 253, 252, 251, 250>>}}

\* Seeds passed to ClockSeq::new directly
RandomBits == Seeds \cup {1, 16383, 16384, 32767, 32768, 49151, 49152, 43981}

(***************************************************************************)
(* State                                                                   *)
(***************************************************************************)
VARIABLES
    LAST_TIMESTAMP,  \* static LAST_TIMESTAMP: AtomicU64
    pc,              \* per thread: where its v1/v2 call stands
    op,              \* per thread: "v1" or "v2"
    dom,             \* per thread: v2's Domain argument
    timestamp,       \* per thread: the local `timestamp`
    clock,           \* per thread: what Timestamp::new() returned
    seen,            \* per thread: v1/v2 calls that had returned when it began
    issued,          \* history: one record per returned v1/v2 call
    result,          \* the most recent call, with the value it returned
    md5,             \* the digests md5::compute has returned, by input
    sha1,            \* the digests Sha1 has returned, by input
    ncalls           \* calls begun so far

vars == <<LAST_TIMESTAMP, pc, op, dom, timestamp, clock, seen, issued,
          result, md5, sha1, ncalls>>

threadVars == <<pc, op, dom, timestamp, clock, seen>>

Init ==
    /\ LAST_TIMESTAMP = Zero64
    /\ pc = [t \in Threads |-> "idle"]
    /\ op = [t \in Threads |-> "none"]
    /\ dom = [t \in Threads |-> PERSON]
    /\ timestamp = [t \in Threads |-> Zero64]
    /\ clock = [t \in Threads |-> Zero64]
    /\ seen = [t \in Threads |-> 0]
    /\ issued = <<>>
    /\ result = [op |-> "none"]
    /\ md5 = <<>>
    /\ sha1 = <<>>
    /\ ncalls = 0

\* What a returned v1 or v2 call leaves in `result`
time_result(o, d, ts, clk, random_bits) ==
    [op |-> o, timestamp |-> ts, clock |-> clk, random_bits |-> random_bits,
     layout |-> IF o = "v1"
                THEN v1_layout(ts, random_bits, SystemMac)
                ELSE v2_layout(ts, d, random_bits, SystemMac)]

(***************************************************************************)
(* v1 and v2 called by threads: one action per access to shared state      *)
(***************************************************************************)
\* time.rs 20 / 48: let mut timestamp = Timestamp::new();
ReadClock(t) ==
    /\ pc[t] = "idle"
    /\ ncalls < MaxCalls
    /\ \E o \in {"v1", "v2"}, d \in Domain, i \in Intervals :
          /\ o = "v1" => d = PERSON
          /\ op' = [op EXCEPT ![t] = o]
          /\ dom' = [dom EXCEPT ![t] = d]
          /\ timestamp' = [timestamp EXCEPT ![t] = Timestamp_new(i)]
          /\ clock' = [clock EXCEPT ![t] = Timestamp_new(i)]
    /\ seen' = [seen EXCEPT ![t] = Len(issued)]
    /\ pc' = [pc EXCEPT ![t] = "load"]
    /\ ncalls' = ncalls + 1
    /\ UNCHANGED <<LAST_TIMESTAMP, issued, result, md5, sha1>>

\* time.rs 21-24 / 49-52: load LAST_TIMESTAMP, compare, bump
Load(t) ==
    /\ pc[t] = "load"
    /\ LET last == LAST_TIMESTAMP
       IN  timestamp' = [timestamp EXCEPT ![t] = adjust(timestamp[t], last)]
    /\ pc' = [pc EXCEPT ![t] = "store"]
    /\ UNCHANGED <<LAST_TIMESTAMP, op, dom, clock, seen, issued, result,
                   md5, sha1, ncalls>>

\* time.rs 25 / 53: LAST_TIMESTAMP.store(timestamp.0)
Store(t) ==
    /\ pc[t] = "store"
    /\ LAST_TIMESTAMP' = timestamp[t]
    /\ pc' = [pc EXCEPT ![t] = "build"]
    /\ UNCHANGED <<op, dom, timestamp, clock, seen, issued, result,
                   md5, sha1, ncalls>>

\* time.rs 27-38 / 55-63: mac, clock sequence, the Layout; the call returns
Return(t) ==
    /\ pc[t] = "build"
    /\ \E random_bits \in Seeds :
          result' = time_result(op[t], dom[t], timestamp[t], clock[t], random_bits)
    /\ issued' = Append(issued, [timestamp |-> timestamp[t], after |-> seen[t]])
    /\ pc' = [pc EXCEPT ![t] = "idle"]
    /\ op' = [op EXCEPT ![t] = "none"]
    /\ dom' = [dom EXCEPT ![t] = PERSON]
    /\ timestamp' = [timestamp EXCEPT ![t] = Zero64]
    /\ clock' = [clock EXCEPT ![t] = Zero64]
    /\ seen' = [seen EXCEPT ![t] = 0]
    /\ UNCHANGED <<LAST_TIMESTAMP, md5, sha1, ncalls>>

(***************************************************************************)
(* The generators called one after another: each call is one action        *)
(***************************************************************************)
\* A v1 (o = "v1") or v2 (o = "v2", Domain d) call from start to return, with
\* no other call in progress
time_based(o, d) ==
    /\ \A t \in Threads : pc[t] = "idle"
    /\ ncalls < MaxCalls
    /\ \E i \in Intervals, random_bits \in Seeds :
          LET last == LAST_TIMESTAMP
              ts == adjust(Timestamp_new(i), last)
          IN  /\ LAST_TIMESTAMP' = ts
              /\ issued' = Append(issued, [timestamp |-> ts, after |-> Len(issued)])
              /\ result' = time_result(o, d, ts, Timestamp_new(i), random_bits)
    /\ ncalls' = ncalls + 1
    /\ UNCHANGED <<threadVars, md5, sha1>>

\* UUID::v1()
v1 == time_based("v1", PERSON)

\* UUID::v2(d)
v2 == \E d \in Domain : time_based("v2", d)

\* from_mac guarded like v1: the timestamp compared with LAST_TIMESTAMP,
\* bumped and stored
from_mac_guarded(v, mac) ==
    /\ ncalls < MaxCalls
    /\ \E i \in Intervals, random_bits \in Seeds :
          LET ts == adjust(Timestamp_new(i), LAST_TIMESTAMP)
          IN  /\ LAST_TIMESTAMP' = ts
              /\ result' = [op |-> "from_mac", v |-> v, mac |-> mac,
                            clock |-> Timestamp_new(i), random_bits |-> random_bits,
                            layout |-> from_mac_layout(ts, v, random_bits, mac)]
    /\ ncalls' = ncalls + 1
    /\ UNCHANGED <<threadVars, issued, md5, sha1>>

\* UUID::from_mac(v, mac)
from_mac(v, mac) ==
    /\ ncalls < MaxCalls
    /\ \E i \in Intervals, random_bits \in Seeds :
          LET ts == Timestamp_new(i)
          IN  result' = [op |-> "from_mac", v |-> v, mac |-> mac,
                         clock |-> ts, random_bits |-> random_bits,
                         layout |-> from_mac_layout(ts, v, random_bits, mac)]
    /\ ncalls' = ncalls + 1
    /\ UNCHANGED <<LAST_TIMESTAMP, threadVars, issued, md5, sha1>>

FromMac == \E v \in Version, mac \in Macs : from_mac(v, mac)

\* The hash provider is a function: an input hashed before gets the digest it
\* got then, a new input gets any digest
Digest(memo, input, digests) ==
    IF input \in DOMAIN memo THEN {memo[input]} ELSE digests

Remember(memo, input, hash) ==
    IF input \in DOMAIN memo THEN memo ELSE memo @@ (input :> hash)

\* UUID::v3(any, namespace)
v3(any, namespace) ==
    /\ ncalls < MaxCalls
    /\ \E hash \in Digest(md5, data(any, namespace), MD5Digests) :
          /\ md5' = Remember(md5, data(any, namespace), hash)
          /\ result' = [op |-> "v3", any |-> any, namespace |-> namespace,
                        hash |-> hash, layout |-> name_layout(hash, MD5)]
    /\ ncalls' = ncalls + 1
    /\ UNCHANGED <<LAST_TIMESTAMP, threadVars, issued, sha1>>

\* UUID::v5(any, namespace)
v5(any, namespace) ==
    /\ ncalls < MaxCalls
    /\ \E hash \in Digest(sha1, data(any, namespace), SHA1Digests) :
          /\ sha1' = Remember(sha1, data(any, namespace), hash)
          /\ result' = [op |-> "v5", any |-> any, namespace |-> namespace,
                        hash |-> hash, layout |-> name_layout(hash, SHA1)]
    /\ ncalls' = ncalls + 1
    /\ UNCHANGED <<LAST_TIMESTAMP, threadVars, issued, md5>>

V3 == \E any \in Names, namespace \in Namespaces : v3(any, namespace)

V5 == \E any \in Names, namespace \in Namespaces : v5(any, namespace)

(***************************************************************************)
(* The pure functions called on their own                                  *)
(***************************************************************************)
\* l.as_bytes() on a Layout literal
AsBytes ==
    /\ \E l \in Layouts :
          result' = [op |-> "as_bytes", layout |-> l, bytes |-> as_bytes(l)]
    /\ UNCHANGED <<LAST_TIMESTAMP, threadVars, issued, md5, sha1, ncalls>>

\* ClockSeq::new(random_bits)
ClockSeqNew ==
    /\ \E random_bits \in RandomBits :
          result' = [op |-> "ClockSeq::new", random_bits |-> random_bits,
                     clock_seq |-> ClockSeq_new(random_bits)]
    /\ UNCHANGED <<LAST_TIMESTAMP, threadVars, issued, md5, sha1, ncalls>>

(***************************************************************************)
(* Specifications                                                          *)
(***************************************************************************)
\* One caller: the generators are called one after another
Next == v1 \/ v2 \/ FromMac \/ V3 \/ V5

Spec == Init /\ [][Next]_vars

\* Several threads call v1 and v2; their steps interleave
ConcNext ==
    \/ \E t \in Threads : ReadClock(t)
    \/ \E t \in Threads : Load(t)
    \/ \E t \in Threads : Store(t)
    \/ \E t \in Threads : Return(t)

ConcSpec == Init /\ [][ConcNext]_vars

\* The pure functions applied to inputs drawn from bounded sets
PureNext == AsBytes \/ ClockSeqNew

PureSpec == Init /\ [][PureNext]_vars

(***************************************************************************)
(* Properties                                                              *)
(***************************************************************************)
TimeBased == {"v1", "v2"}

\* The 60-bit timestamp held by the three time fields of a Layout
packed_timestamp(l) ==
    <<l.field_high_and_version % 4096, l.field_mid,
      l.field_low[1], l.field_low[2]>>

\* The inverse of as_bytes: 16 bytes read big-endian in declaration order
from_bytes(b) ==
    Layout(<<b[1] * 256 + b[2], b[3] * 256 + b[4]>>,
           b[5] * 256 + b[6],
           b[7] * 256 + b[8],
           b[9],
           b[10],
           <<b[11], b[12], b[13], b[14], b[15], b[16]>>)

\* C1: when v1 and v2 calls follow one another, each call issues (stores in
\* LAST_TIMESTAMP) a timestamp strictly greater than that of every earlier
\* call, whatever the clock reads.
C1_SequentialStrictlyIncreasing ==
    /\ \A i, j \in 1..Len(issued) :
          i < j => Lt64(issued[i].timestamp, issued[j].timestamp)
    /\ Len(issued) > 0 => LAST_TIMESTAMP = issued[Len(issued)].timestamp

\* C1 witness: a third call whose clock read no more than an earlier call's
\* timestamp has returned.
C1_Witness ==
    /\ Len(issued) >= 3
    /\ result.op \in TimeBased
    /\ Le64(result.clock, issued[1].timestamp)

\* C2: with concurrent v1/v2 calls no two calls yield the same timestamp, and
\* a call that starts after another has returned yields a greater timestamp.
C2_ConcurrentUniqueAndOrdered ==
    \A i, j \in 1..Len(issued) :
        i # j =>
            /\ issued[i].timestamp # issued[j].timestamp
            /\ i <= issued[j].after
                  => Lt64(issued[i].timestamp, issued[j].timestamp)

\* C3: the Layout a generator returns reports the generator's version and the
\* RFC variant, never None.
C3_VersionAndVariant ==
    /\ result.op = "v1" => get_version(result.layout) = TIME
    /\ result.op = "v2" => get_version(result.layout) = DCE
    /\ result.op = "v3" => get_version(result.layout) = MD5
    /\ result.op = "v5" => get_version(result.layout) = SHA1
    /\ result.op = "from_mac" => get_version(result.layout) = result.v
    /\ result.op \in {"v1", "v2", "v3", "v5", "from_mac"}
          => get_variant(result.layout) = RFC

\* C3 witness: v2 returned a Layout for a timestamp bumped to 2^60 and a
\* clock sequence with every bit set.
C3_Witness ==
    /\ result.op = "v2"
    /\ result.timestamp = <<4096, 0, 0, 0>>
    /\ result.random_bits = 65535

\* C4: for a Layout built by v1, v2 or from_mac from a 60-bit timestamp
\* T >= UTC_EPOCH, get_time() returns T - UTC_EPOCH.
C4_GetTime ==
    result.op \in {"v1", "v2", "from_mac"} =>
        LET T == IF result.op = "from_mac" THEN result.clock ELSE result.timestamp
        IN  (T[1] < 4096 /\ Le64(UTC_EPOCH, T))
                => get_time(result.layout) = Sub64(T, UTC_EPOCH)

\* C5: reading the 16 bytes of as_bytes() big-endian in declaration order
\* gives back the Layout, so no other Layout has the same bytes.
C5_RoundTrip ==
    result.op = "as_bytes" =>
        /\ Len(result.bytes) = 16
        /\ \A k \in 1..16 : result.bytes[k] \in 0..255
        /\ from_bytes(result.bytes) = result.layout
        /\ \A l \in Layouts : as_bytes(l) = result.bytes => l = result.layout

\* C5 witness: as_bytes was applied to a Layout whose fields have distinct
\* high and low bytes.
C5_Witness ==
    /\ result.op = "as_bytes"
    /\ result.layout.field_low = <<4660, 22136>>
    /\ result.layout.field_mid = 39612
    /\ result.layout.field_high_and_version = 7663

\* The bytes v3 (version 3) or v5 (version 5) must produce from digest h
NameBytesOk(b, h, v) ==
    /\ \A k \in (1..16) \ {7, 9} : b[k] = h[k]
    /\ b[7] = v * 16 + (h[7] % 16)
    /\ b[9] = RFC * 16 + (h[9] % 16)

\* C6: the 16 bytes of v3/v5's Layout are the first 16 digest bytes with the
\* high nibble of byte 6 replaced by the version and that of byte 8 by the
\* RFC tag, the digest being the hash provider's for namespace string + name;
\* a call repeated with the same arguments returns the same Layout.
C6_NameBased ==
    /\ [](/\ result.op = "v3" =>
                /\ result.hash = md5[data(result.any, result.namespace)]
                /\ NameBytesOk(as_bytes(result.layout), result.hash, 3)
          /\ result.op = "v5" =>
                /\ result.hash = sha1[data(result.any, result.namespace)]
                /\ NameBytesOk(as_bytes(result.layout), result.hash, 5))
    /\ [][(/\ result.op \in {"v3", "v5"}
           /\ result'.op = result.op
           /\ result'.any = result.any
           /\ result'.namespace = result.namespace)
              => result'.layout = result.layout]_vars

\* C6 witness: v3 returned twice, the digest having set bits in the nibbles
\* that are replaced.
C6_Witness ==
    /\ result.op = "v3"
    /\ ncalls >= 2
    /\ result.hash[7] = 255
    /\ result.hash[9] = 255

C8_FromMacFrame ==
    /\ [](result.op = "from_mac" =>
            /\ packed_timestamp(result.layout) = result.clock
            /\ get_mac(result.layout) = result.mac
            /\ get_version(result.layout) = result.v)
    /\ [][(ncalls' # ncalls /\ result'.op = "from_mac")
              => LAST_TIMESTAMP' = LAST_TIMESTAMP /\ issued' = issued]_vars

\* C8 witness: from_mac returned while its clock reading was no greater than
\* a timestamp v1/v2 had issued.
C8_Witness ==
    /\ result.op = "from_mac"
    /\ Len(issued) > 0
    /\ Le64(result.clock, LAST_TIMESTAMP)

\* C9: two v1/from_mac calls whose ClockSeq::new values differ have different
\* (clock_seq_high_and_reserved, clock_seq_low) pairs.
C9_ClockSeqLossless ==
    [][(/\ result.op \in {"v1", "from_mac"}
        /\ result'.op \in {"v1", "from_mac"}
        /\ ClockSeq_new(result.random_bits) # ClockSeq_new(result'.random_bits))
          => <<result.layout.clock_seq_high_and_reserved,
               result.layout.clock_seq_low>>
             # <<result'.layout.clock_seq_high_and_reserved,
                 result'.layout.clock_seq_low>>]_vars

\* C10: under any interleaving of v1/v2 calls, LAST_TIMESTAMP never
\* decreases.
C10_LastNeverDecreases ==
    [][Le64(LAST_TIMESTAMP, LAST_TIMESTAMP')]_vars

\* C11: after a v1/v2 call the 60-bit timestamp packed into the returned
\* Layout is the value the call stored in LAST_TIMESTAMP, and that value,
\* bumped or not, is at most 2^60 - 1.
C11_PackedEqualsStored ==
    result.op \in TimeBased =>
        /\ result.timestamp = LAST_TIMESTAMP
        /\ result.timestamp[1] < 4096
        /\ packed_timestamp(result.layout) = result.timestamp

====
